---- MODULE Spec2Model ----
(***************************************************************************)
(* Writer/Critic iterative-refinement graph of search_agent (src/graph.py) *)
(* driven through the checkpointed LangGraph application by the server     *)
(* endpoints (src/server.py).                                              *)
(*                                                                         *)
(* A text (str) is a sequence of symbols: a symbol is one character or one *)
(* fixed literal of the source ("<score>", the leak marker, a prompt, ...).*)
(* A message is a record with the fields of a langchain message.           *)
(***************************************************************************)
EXTENDS Integers, Sequences, FiniteSets, TLC

\* ------------------------------------------------------------------ bounds
\* Longest writer_messages / critic_messages the bounded specification Spec
\* lets a session grow to (its runs are cut there).
MaxWriterMsgs == 6
MaxCriticMsgs == 6

\* ------------------------------------------------------- program constants
\* "writer_tool_count >= 6" / "critic_tool_count >= 6"
BUDGET_MAX == 6
\* critic_router: "loop >= 2"
MAX_ITERATIONS == 2
\* critic_router: "score >= 8"
PASS_THRESHOLD == 8
\* config={"recursion_limit": 80}
RECURSION_LIMIT == 80
INT_MAX_STR_DIGITS == 4300
MaxTurns == 3
MaxInFlight == 2
MaxRequests == 2

Threads == {"A", "B"}

\* ------------------------------------------------------------------- text
Digit == <<"0", "1", "2", "3", "4", "5", "6", "7", "8", "9">>
\* A character outside printable ASCII is written by its code point, "U+XXXX";
\* tab, line feed, carriage return and form feed are "\t", "\n", "\r", "\f".
\* The characters the regex class \d matches and int() reads (Unicode decimal
\* digits), DecimalDigits[v + 1] being those of value v
DecimalDigits ==
    << {"0", "U+0660", "U+06F0", "U+07C0", "U+0966", "U+09E6", "U+0A66",
        "U+0AE6", "U+0B66", "U+0BE6", "U+0C66", "U+0CE6", "U+0D66", "U+0DE6",
        "U+0E50", "U+0ED0", "U+0F20", "U+1040", "U+1090", "U+17E0", "U+1810",
        "U+1946", "U+19D0", "U+1A80", "U+1A90", "U+1B50", "U+1BB0", "U+1C40",
        "U+1C50", "U+A620", "U+A8D0", "U+A900", "U+A9D0", "U+A9F0", "U+AA50",
        "U+ABF0", "U+FF10", "U+104A0", "U+10D30", "U+11066", "U+110F0",
        "U+11136", "U+111D0", "U+112F0", "U+11450", "U+114D0", "U+11650",
        "U+116C0", "U+11730", "U+118E0", "U+11950", "U+11C50", "U+11D50",
        "U+11DA0", "U+16A60", "U+16AC0", "U+16B50", "U+1D7CE", "U+1D7D8",
        "U+1D7E2", "U+1D7EC", "U+1D7F6", "U+1E140", "U+1E2F0", "U+1E950",
        "U+1FBF0"},
       {"1", "U+0661", "U+06F1", "U+07C1", "U+0967", "U+09E7", "U+0A67",
        "U+0AE7", "U+0B67", "U+0BE7", "U+0C67", "U+0CE7", "U+0D67", "U+0DE7",
        "U+0E51", "U+0ED1", "U+0F21", "U+1041", "U+1091", "U+17E1", "U+1811",
        "U+1947", "U+19D1", "U+1A81", "U+1A91", "U+1B51", "U+1BB1", "U+1C41",
        "U+1C51", "U+A621", "U+A8D1", "U+A901", "U+A9D1", "U+A9F1", "U+AA51",
        "U+ABF1", "U+FF11", "U+104A1", "U+10D31", "U+11067", "U+110F1",
        "U+11137", "U+111D1", "U+112F1", "U+11451", "U+114D1", "U+11651",
        "U+116C1", "U+11731", "U+118E1", "U+11951", "U+11C51", "U+11D51",
        "U+11DA1", "U+16A61", "U+16AC1", "U+16B51", "U+1D7CF", "U+1D7D9",
        "U+1D7E3", "U+1D7ED", "U+1D7F7", "U+1E141", "U+1E2F1", "U+1E951",
        "U+1FBF1"},
       {"2", "U+0662", "U+06F2", "U+07C2", "U+0968", "U+09E8", "U+0A68",
        "U+0AE8", "U+0B68", "U+0BE8", "U+0C68", "U+0CE8", "U+0D68", "U+0DE8",
        "U+0E52", "U+0ED2", "U+0F22", "U+1042", "U+1092", "U+17E2", "U+1812",
        "U+1948", "U+19D2", "U+1A82", "U+1A92", "U+1B52", "U+1BB2", "U+1C42",
        "U+1C52", "U+A622", "U+A8D2", "U+A902", "U+A9D2", "U+A9F2", "U+AA52",
        "U+ABF2", "U+FF12", "U+104A2", "U+10D32", "U+11068", "U+110F2",
        "U+11138", "U+111D2", "U+112F2", "U+11452", "U+114D2", "U+11652",
        "U+116C2", "U+11732", "U+118E2", "U+11952", "U+11C52", "U+11D52",
        "U+11DA2", "U+16A62", "U+16AC2", "U+16B52", "U+1D7D0", "U+1D7DA",
        "U+1D7E4", "U+1D7EE", "U+1D7F8", "U+1E142", "U+1E2F2", "U+1E952",
        "U+1FBF2"},
       {"3", "U+0663", "U+06F3", "U+07C3", "U+0969", "U+09E9", "U+0A69",
        "U+0AE9", "U+0B69", "U+0BE9", "U+0C69", "U+0CE9", "U+0D69", "U+0DE9",
        "U+0E53", "U+0ED3", "U+0F23", "U+1043", "U+1093", "U+17E3", "U+1813",
        "U+1949", "U+19D3", "U+1A83", "U+1A93", "U+1B53", "U+1BB3", "U+1C43",
        "U+1C53", "U+A623", "U+A8D3", "U+A903", "U+A9D3", "U+A9F3", "U+AA53",
        "U+ABF3", "U+FF13", "U+104A3", "U+10D33", "U+11069", "U+110F3",
        "U+11139", "U+111D3", "U+112F3", "U+11453", "U+114D3", "U+11653",
        "U+116C3", "U+11733", "U+118E3", "U+11953", "U+11C53", "U+11D53",
        "U+11DA3", "U+16A63", "U+16AC3", "U+16B53", "U+1D7D1", "U+1D7DB",
        "U+1D7E5", "U+1D7EF", "U+1D7F9", "U+1E143", "U+1E2F3", "U+1E953",
        "U+1FBF3"},
       {"4", "U+0664", "U+06F4", "U+07C4", "U+096A", "U+09EA", "U+0A6A",
        "U+0AEA", "U+0B6A", "U+0BEA", "U+0C6A", "U+0CEA", "U+0D6A", "U+0DEA",
        "U+0E54", "U+0ED4", "U+0F24", "U+1044", "U+1094", "U+17E4", "U+1814",
        "U+194A", "U+19D4", "U+1A84", "U+1A94", "U+1B54", "U+1BB4", "U+1C44",
        "U+1C54", "U+A624", "U+A8D4", "U+A904", "U+A9D4", "U+A9F4", "U+AA54",
        "U+ABF4", "U+FF14", "U+104A4", "U+10D34", "U+1106A", "U+110F4",
        "U+1113A", "U+111D4", "U+112F4", "U+11454", "U+114D4", "U+11654",
        "U+116C4", "U+11734", "U+118E4", "U+11954", "U+11C54", "U+11D54",
        "U+11DA4", "U+16A64", "U+16AC4", "U+16B54", "U+1D7D2", "U+1D7DC",
        "U+1D7E6", "U+1D7F0", "U+1D7FA", "U+1E144", "U+1E2F4", "U+1E954",
        "U+1FBF4"},
       {"5", "U+0665", "U+06F5", "U+07C5", "U+096B", "U+09EB", "U+0A6B",
        "U+0AEB", "U+0B6B", "U+0BEB", "U+0C6B", "U+0CEB", "U+0D6B", "U+0DEB",
        "U+0E55", "U+0ED5", "U+0F25", "U+1045", "U+1095", "U+17E5", "U+1815",
        "U+194B", "U+19D5", "U+1A85", "U+1A95", "U+1B55", "U+1BB5", "U+1C45",
        "U+1C55", "U+A625", "U+A8D5", "U+A905", "U+A9D5", "U+A9F5", "U+AA55",
        "U+ABF5", "U+FF15", "U+104A5", "U+10D35", "U+1106B", "U+110F5",
        "U+1113B", "U+111D5", "U+112F5", "U+11455", "U+114D5", "U+11655",
        "U+116C5", "U+11735", "U+118E5", "U+11955", "U+11C55", "U+11D55",
        "U+11DA5", "U+16A65", "U+16AC5", "U+16B55", "U+1D7D3", "U+1D7DD",
        "U+1D7E7", "U+1D7F1", "U+1D7FB", "U+1E145", "U+1E2F5", "U+1E955",
        "U+1FBF5"},
       {"6", "U+0666", "U+06F6", "U+07C6", "U+096C", "U+09EC", "U+0A6C",
        "U+0AEC", "U+0B6C", "U+0BEC", "U+0C6C", "U+0CEC", "U+0D6C", "U+0DEC",
        "U+0E56", "U+0ED6", "U+0F26", "U+1046", "U+1096", "U+17E6", "U+1816",
        "U+194C", "U+19D6", "U+1A86", "U+1A96", "U+1B56", "U+1BB6", "U+1C46",
        "U+1C56", "U+A626", "U+A8D6", "U+A906", "U+A9D6", "U+A9F6", "U+AA56",
        "U+ABF6", "U+FF16", "U+104A6", "U+10D36", "U+1106C", "U+110F6",
        "U+1113C", "U+111D6", "U+112F6", "U+11456", "U+114D6", "U+11656",
        "U+116C6", "U+11736", "U+118E6", "U+11956", "U+11C56", "U+11D56",
        "U+11DA6", "U+16A66", "U+16AC6", "U+16B56", "U+1D7D4", "U+1D7DE",
        "U+1D7E8", "U+1D7F2", "U+1D7FC", "U+1E146", "U+1E2F6", "U+1E956",
        "U+1FBF6"},
       {"7", "U+0667", "U+06F7", "U+07C7", "U+096D", "U+09ED", "U+0A6D",
        "U+0AED", "U+0B6D", "U+0BED", "U+0C6D", "U+0CED", "U+0D6D", "U+0DED",
        "U+0E57", "U+0ED7", "U+0F27", "U+1047", "U+1097", "U+17E7", "U+1817",
        "U+194D", "U+19D7", "U+1A87", "U+1A97", "U+1B57", "U+1BB7", "U+1C47",
        "U+1C57", "U+A627", "U+A8D7", "U+A907", "U+A9D7", "U+A9F7", "U+AA57",
        "U+ABF7", "U+FF17", "U+104A7", "U+10D37", "U+1106D", "U+110F7",
        "U+1113D", "U+111D7", "U+112F7", "U+11457", "U+114D7", "U+11657",
        "U+116C7", "U+11737", "U+118E7", "U+11957", "U+11C57", "U+11D57",
        "U+11DA7", "U+16A67", "U+16AC7", "U+16B57", "U+1D7D5", "U+1D7DF",
        "U+1D7E9", "U+1D7F3", "U+1D7FD", "U+1E147", "U+1E2F7", "U+1E957",
        "U+1FBF7"},
       {"8", "U+0668", "U+06F8", "U+07C8", "U+096E", "U+09EE", "U+0A6E",
        "U+0AEE", "U+0B6E", "U+0BEE", "U+0C6E", "U+0CEE", "U+0D6E", "U+0DEE",
        "U+0E58", "U+0ED8", "U+0F28", "U+1048", "U+1098", "U+17E8", "U+1818",
        "U+194E", "U+19D8", "U+1A88", "U+1A98", "U+1B58", "U+1BB8", "U+1C48",
        "U+1C58", "U+A628", "U+A8D8", "U+A908", "U+A9D8", "U+A9F8", "U+AA58",
        "U+ABF8", "U+FF18", "U+104A8", "U+10D38", "U+1106E", "U+110F8",
        "U+1113E", "U+111D8", "U+112F8", "U+11458", "U+114D8", "U+11658",
        "U+116C8", "U+11738", "U+118E8", "U+11958", "U+11C58", "U+11D58",
        "U+11DA8", "U+16A68", "U+16AC8", "U+16B58", "U+1D7D6", "U+1D7E0",
        "U+1D7EA", "U+1D7F4", "U+1D7FE", "U+1E148", "U+1E2F8", "U+1E958",
        "U+1FBF8"},
       {"9", "U+0669", "U+06F9", "U+07C9", "U+096F", "U+09EF", "U+0A6F",
        "U+0AEF", "U+0B6F", "U+0BEF", "U+0C6F", "U+0CEF", "U+0D6F", "U+0DEF",
        "U+0E59", "U+0ED9", "U+0F29", "U+1049", "U+1099", "U+17E9", "U+1819",
        "U+194F", "U+19D9", "U+1A89", "U+1A99", "U+1B59", "U+1BB9", "U+1C49",
        "U+1C59", "U+A629", "U+A8D9", "U+A909", "U+A9D9", "U+A9F9", "U+AA59",
        "U+ABF9", "U+FF19", "U+104A9", "U+10D39", "U+1106F", "U+110F9",
        "U+1113F", "U+111D9", "U+112F9", "U+11459", "U+114D9", "U+11659",
        "U+116C9", "U+11739", "U+118E9", "U+11959", "U+11C59", "U+11D59",
        "U+11DA9", "U+16A69", "U+16AC9", "U+16B59", "U+1D7D7", "U+1D7E1",
        "U+1D7EB", "U+1D7F5", "U+1D7FF", "U+1E149", "U+1E2F9", "U+1E959",
        "U+1FBF9"} >>
IsDigit(c) == \E i \in 1..10 : c \in DecimalDigits[i]
DigitVal(c) == (CHOOSE i \in 1..10 : c \in DecimalDigits[i]) - 1
\* the characters the regex class \s matches and str.strip() removes
Whitespace ==
    {"\t", "\n", "U+000B", "\f", "\r", "U+001C", "U+001D", "U+001E",
     "U+001F", " ", "U+0085", "U+00A0", "U+1680", "U+2000", "U+2001",
     "U+2002", "U+2003", "U+2004", "U+2005", "U+2006", "U+2007", "U+2008",
     "U+2009", "U+200A", "U+2028", "U+2029", "U+202F", "U+205F", "U+3000"}
IsSpace(c) == c \in Whitespace

\* the fake tool-call marker scanned for by both routers
LEAK_MARKER == "<|DSML|function_calls>"

\* Python: needle in hay
Contains(hay, needle) ==
    \E i \in 1..(Len(hay) + 1) :
        /\ i + Len(needle) - 1 <= Len(hay)
        /\ \A k \in 1..Len(needle) : hay[i + k - 1] = needle[k]

\* the least element of a non-empty set of numbers
Least(S) == CHOOSE j \in S : \A k \in S : j <= k
Greatest(S) == CHOOSE j \in S : \A k \in S : j >= k

\* Python: s.strip()
LStrip(s) ==
    LET keep == {j \in 1..Len(s) : ~IsSpace(s[j])}
    IN  IF keep = {} THEN <<>> ELSE SubSeq(s, Least(keep), Len(s))
RStrip(s) ==
    LET keep == {j \in 1..Len(s) : ~IsSpace(s[j])}
    IN  IF keep = {} THEN <<>> ELSE SubSeq(s, 1, Greatest(keep))
Strip(s) == RStrip(LStrip(s))

\* Python: the value int(digits) has when it returns
RECURSIVE IntOf(_)
IntOf(ds) ==
    IF ds = <<>> THEN 0
    ELSE 10 * IntOf(SubSeq(ds, 1, Len(ds) - 1)) + DigitVal(ds[Len(ds)])
\* Python 3.11: int() of more than sys.get_int_max_str_digits() digits, leading
\* zeros counted, raises ValueError
IntRaises(ds) == Len(ds) > INT_MAX_STR_DIGITS

\* Python: str(n) for n >= 0
RECURSIVE StrOfInt(_)
StrOfInt(n) ==
    IF n < 10 THEN <<Digit[n + 1]>> ELSE StrOfInt(n \div 10) \o <<Digit[(n % 10) + 1]>>

\* first position >= i of s that is not white space (Len(s)+1 when none)
SkipSpace(s, i) ==
    LET stops == {j \in i..Len(s) : ~IsSpace(s[j])}
    IN  IF stops = {} THEN (IF i > Len(s) THEN i ELSE Len(s) + 1) ELSE Least(stops)
\* first position >= i of s that is not a digit
SkipDigits(s, i) ==
    LET stops == {j \in i..Len(s) : ~IsDigit(s[j])}
    IN  IF stops = {} THEN (IF i > Len(s) THEN i ELSE Len(s) + 1) ELSE Least(stops)

\* re.search(r'<score>\s*(\d+)\s*</score>', content): the match that starts at i
ScoreMatchAt(s, i) ==
    LET a == SkipSpace(s, i + 1)
        b == SkipDigits(s, a)
        c == SkipSpace(s, b)
    IN  /\ s[i] = "<score>"
        /\ b > a
        /\ c <= Len(s)
        /\ s[c] = "</score>"
ScoreGroupAt(s, i) ==
    LET a == SkipSpace(s, i + 1) IN SubSeq(s, a, SkipDigits(s, a) - 1)
HasScore(s) == \E i \in 1..Len(s) : ScoreMatchAt(s, i)
\* leftmost match
ScorePos(s) ==
    CHOOSE i \in 1..Len(s) :
        ScoreMatchAt(s, i) /\ \A j \in 1..(i - 1) : ~ScoreMatchAt(s, j)

\* re.search(r'<advice>(.*?)</advice>', content, re.DOTALL)
AdviceMatchAt(s, i) ==
    s[i] = "<advice>" /\ \E j \in (i + 1)..Len(s) : s[j] = "</advice>"
HasAdvice(s) == \E i \in 1..Len(s) : AdviceMatchAt(s, i)
AdvicePos(s) ==
    CHOOSE i \in 1..Len(s) :
        AdviceMatchAt(s, i) /\ \A j \in 1..(i - 1) : ~AdviceMatchAt(s, j)
AdviceGroup(s) ==
    LET i == AdvicePos(s)
        j == CHOOSE j \in (i + 1)..Len(s) :
                 s[j] = "</advice>" /\ \A k \in (i + 1)..(j - 1) : s[k] # "</advice>"
    IN  SubSeq(s, i + 1, j - 1)

\* critic_node, lines 171-186: the (score, advice) parsed from a response;
\* score stays 0 when int() raises (try / except: pass, lines 178-181)
ParseScore(content, tool_calls) ==
    IF content # <<>> /\ tool_calls = <<>> /\ HasScore(content)
    THEN LET ds == ScoreGroupAt(content, ScorePos(content))
         IN  IF IntRaises(ds) THEN 0 ELSE IntOf(ds)
    ELSE 0
ParseAdvice(content, tool_calls) ==
    IF content # <<>> /\ tool_calls = <<>> /\ HasAdvice(content)
    THEN Strip(AdviceGroup(content))
    ELSE <<>>

\* --------------------------------------------------------------- messages
\* langchain messages: type is "system" (SystemMessage), "human" (HumanMessage),
\* "ai" (AIMessage) or "tool" (ToolMessage); tool_calls is a sequence of
\* [id, name]; name is the AIMessage's name ("writer" / "critic") or the tool's.
Msg(type, content, tool_calls, tool_call_id, name) ==
    [type |-> type, content |-> content, tool_calls |-> tool_calls,
     tool_call_id |-> tool_call_id, name |-> name]
SystemMessage(content) == Msg("system", content, <<>>, "", "")
HumanMessage(content) == Msg("human", content, <<>>, "", "")
ToolMessage(id, content, name) == Msg("tool", content, <<>>, id, name)
\* a provider response [content, tool_calls] with response.name set
AIMessage(resp, name) == Msg("ai", resp.content, resp.tool_calls, "", name)

Last(seq) == seq[Len(seq)]

\* fixed texts of the source, one symbol each
SYSTEM_PROMPT == <<"SYSTEM_PROMPT">>
CRITIC_SYSTEM_PROMPT == <<"CRITIC_SYSTEM_PROMPT">>
WRITER_LIMIT_NOTICE == <<"writer: tool limit reached, write the final report now">>
CRITIC_LIMIT_NOTICE == <<"critic: tool limit reached, give score and advice now">>
CRITIC_RESET_NOTICE == <<"critic: tool count has been reset to 0">>
WRITER_LIMIT_ERROR == <<"error: writer tool limit reached, stop searching">>
CRITIC_LIMIT_ERROR == <<"error: critic tool limit reached, stop searching">>
WRITER_LIMIT_RAW == <<"notice: writer tool limit reached, earlier call malformed">>
CRITIC_LIMIT_RAW == <<"notice: critic tool limit reached, earlier call malformed">>
WRITER_RAW_WARNING == <<"warning: writer emitted raw XML, reissue the tool call">>
CRITIC_RAW_WARNING == <<"warning: critic emitted raw XML, reissue the tool call">>
\* content of safe_fallback_msg (graph.py 116)
SAFE_FALLBACK == <<"notice: search result filtered as sensitive, search again or ignore it">>

\* f"Critic Feedback (Score: {score}): {advice}"
FeedbackText(score, advice) ==
    <<"Critic Feedback (Score: ">> \o StrOfInt(score) \o <<"): ">> \o advice
\* the review prompt built around the draft (graph.py 158, 192)
ReviewText(draft) == <<"REVIEW_HEAD", "\n", "\n">> \o draft \o <<"\n", "\n", "REVIEW_TAIL">>

\* ---------------------------------------------------------- session state
\* AgentState (state.py); a key not yet written reads as the default that every
\* state.get(key, default) of the source supplies.
EmptyState ==
    [writer_messages |-> <<>>, critic_messages |-> <<>>,
     current_draft |-> <<>>, critique_advice |-> <<>>,
     score |-> 0, loop_count |-> 0,
     writer_tool_count |-> 0, critic_tool_count |-> 0]

\* add_messages reducer: the update is appended (every message has a fresh id)
add_messages(left, right) == left \o right

\* ------------------------------------------------------------------ tools
\* tools.py: what the tool returns under each outcome of its network call
search_web(outcome) ==
    IF outcome = "ok" THEN <<"search results">>
    ELSE <<"Error performing search: ", "e">>
visit_page(outcome) ==
    CASE outcome = "none" -> <<"ERROR: COULD NOT FETCH PAGE">>
      [] outcome = "empty" -> <<"ERROR: NO main content found on this page">>
      [] outcome = "ok" -> <<"page text">>
      [] OTHER -> <<"Error visiting page: ", "e">>
SearchOutcomes == {"ok", "raise"}
VisitOutcomes == {"ok", "none", "empty", "raise"}
OutcomesOf(name) == IF name = "search_web" THEN SearchOutcomes ELSE VisitOutcomes
\* the assignments of an outcome to every call of a batch
BatchOutcomes(tool_calls) ==
    {o \in [1..Len(tool_calls) -> SearchOutcomes \cup VisitOutcomes] :
        \A i \in 1..Len(tool_calls) : o[i] \in OutcomesOf(tool_calls[i].name)}
IsToolError(content) ==
    content \in {search_web("raise"), visit_page("none"), visit_page("empty"),
                 visit_page("raise")}

\* mutant of ToolNode: a call whose tool failed yields no ToolMessage
ToolNode_DropsFailures(last_msg, outs) ==
    LET all == [i \in 1..Len(last_msg.tool_calls) |->
                   LET tc == last_msg.tool_calls[i] IN
                   ToolMessage(tc.id,
                               IF tc.name = "search_web" THEN search_web(outs[i])
                               ELSE visit_page(outs[i]),
                               tc.name)]
        ok(m) == ~IsToolError(m.content)
    IN  SelectSeq(all, ok)

\* ToolNode(tools).invoke({"messages": [last_msg]})["messages"]: one ToolMessage
\* per requested call, carrying the tool's return string
ToolNode(last_msg, outs) ==
    [i \in 1..Len(last_msg.tool_calls) |->
        LET tc == last_msg.tool_calls[i] IN
        ToolMessage(tc.id,
                    IF tc.name = "search_web" THEN search_web(outs[i])
                    ELSE visit_page(outs[i]),
                    tc.name)]

\* ------------------------------------------------------------------ nodes
\* writer_node 80-95: is the feedback message built for this call
already_added(s) ==
    \E i \in 1..Len(s.writer_messages) :
        /\ s.writer_messages[i].type = "human"
        /\ Contains(s.writer_messages[i].content, s.critique_advice)
InjectsFeedback(s) ==
    s.critique_advice # <<>> /\ s.loop_count > 0 /\ ~already_added(s)

\* writer_node 78-106: current_messages as passed to the provider
WriterInput(s) ==
    s.writer_messages
    \o (IF InjectsFeedback(s)
        THEN <<HumanMessage(FeedbackText(s.score, s.critique_advice))>> ELSE <<>>)
    \o (IF s.writer_tool_count >= BUDGET_MAX
        THEN <<SystemMessage(WRITER_LIMIT_NOTICE)>> ELSE <<>>)
\* mutant of WriterToolsBound: the budget compared with > instead of >=
WriterToolsBound_AboveLimit(s) == ~(s.writer_tool_count > BUDGET_MAX)

\* writer_node 99-106: llm_with_tools is used, else the unbound llm
WriterToolsBound(s) == ~(s.writer_tool_count >= BUDGET_MAX)

\* mutant of writer_node: every response without tool call becomes the draft,
\* an empty one included
writer_node_StoresEmpty(s, resp) ==
    [s EXCEPT
        !.writer_messages = add_messages(@, <<AIMessage(resp, "writer")>>),
        !.current_draft = IF resp.tool_calls = <<>> THEN resp.content ELSE @]

\* mutant of writer_node: the feedback message built for the call is returned
\* with the response
writer_node_StoresFeedback(s, resp) ==
    [s EXCEPT
        !.writer_messages =
            add_messages(@,
                (IF InjectsFeedback(s)
                 THEN <<HumanMessage(FeedbackText(s.score, s.critique_advice))>>
                 ELSE <<>>)
                \o <<AIMessage(resp, "writer")>>),
        !.current_draft =
            IF resp.content # <<>> /\ resp.tool_calls = <<>> THEN resp.content ELSE @]

\* writer_node 126-136
writer_node(s, resp) ==
    [s EXCEPT
        !.writer_messages = add_messages(@, <<AIMessage(resp, "writer")>>),
        !.current_draft =
            IF resp.content # <<>> /\ resp.tool_calls = <<>> THEN resp.content ELSE @]

\* writer_node 110: the test on str(e) of an openai.BadRequestError
IsContentRisk(e) ==
    Contains(e, <<"Content Exists Risk">>) \/ Contains(e, <<"invalid_request_error">>)
\* writer_node 108-112: the rejected call is retried (else e is raised again)
WriterRecovers(s, e) == IsContentRisk(e) /\ Last(WriterInput(s)).type = "tool"
\* writer_node 114-117: ToolMessage(tool_call_id=..., content=...), no name
safe_fallback_msg(m) == ToolMessage(m.tool_call_id, SAFE_FALLBACK, "")
\* writer_node 118: current_messages[-1] = safe_fallback_msg
Sanitized(current_messages) ==
    [current_messages EXCEPT ![Len(current_messages)] = safe_fallback_msg(@)]
\* writer_node 112-136 after a recovered rejection, resp being the answer to the
\* retry. The last message is a ToolMessage only when neither the feedback nor
\* the limit notice was added, so current_messages is the list held by the
\* state itself and line 118 replaces the message in the history.
writer_node_retry(s, resp) ==
    writer_node([s EXCEPT !.writer_messages = Sanitized(@)], resp)

\* critic_node 140-166: messages_to_send
CriticInput(s) ==
    <<SystemMessage(CRITIC_SYSTEM_PROMPT)>>
    \o s.critic_messages
    \o (IF s.critic_tool_count = 0 /\ s.loop_count > 0
        THEN <<SystemMessage(CRITIC_RESET_NOTICE)>> ELSE <<>>)
    \o (IF s.critic_tool_count = 0
        THEN <<HumanMessage(ReviewText(s.current_draft))>> ELSE <<>>)
    \o (IF s.critic_tool_count >= BUDGET_MAX
        THEN <<SystemMessage(CRITIC_LIMIT_NOTICE)>> ELSE <<>>)
CriticToolsBound(s) == ~(s.critic_tool_count >= BUDGET_MAX)

\* mutant of critic_node: a response without score keeps the previous score
critic_node_KeepsScore(s, resp) ==
    [s EXCEPT
        !.critic_messages =
            add_messages(@,
                (IF s.critic_tool_count = 0
                 THEN <<HumanMessage(ReviewText(s.current_draft))>> ELSE <<>>)
                \o <<AIMessage(resp, "critic")>>),
        !.score = IF HasScore(resp.content)
                  THEN ParseScore(resp.content, resp.tool_calls) ELSE @,
        !.critique_advice = ParseAdvice(resp.content, resp.tool_calls)]

\* mutant of critic_node: the node counts its own tool request
critic_node_CountsTurn(s, resp) ==
    [s EXCEPT
        !.critic_messages =
            add_messages(@,
                (IF s.critic_tool_count = 0
                 THEN <<HumanMessage(ReviewText(s.current_draft))>> ELSE <<>>)
                \o <<AIMessage(resp, "critic")>>),
        !.score = ParseScore(resp.content, resp.tool_calls),
        !.critique_advice = ParseAdvice(resp.content, resp.tool_calls),
        !.critic_tool_count = IF resp.tool_calls # <<>> THEN @ + 1 ELSE @]

\* critic_node 168-200
critic_node(s, resp) ==
    [s EXCEPT
        !.critic_messages =
            add_messages(@,
                (IF s.critic_tool_count = 0
                 THEN <<HumanMessage(ReviewText(s.current_draft))>> ELSE <<>>)
                \o <<AIMessage(resp, "critic")>>),
        !.score = ParseScore(resp.content, resp.tool_calls),
        !.critique_advice = ParseAdvice(resp.content, resp.tool_calls)]

\* writer_router 205-219
writer_router(s) ==
    LET last_message == Last(s.writer_messages) IN
    IF last_message.tool_calls # <<>> THEN "tools_writer"
    ELSE IF Contains(last_message.content, <<LEAK_MARKER>>) THEN "tools_writer"
    ELSE "critic"

\* mutant of critic_router: the iteration cap compared with > instead of >=
critic_router_LoopOffByOne(s) ==
    LET last_message == Last(s.critic_messages) IN
    IF last_message.tool_calls # <<>> THEN "tools_critic"
    ELSE IF Contains(last_message.content, <<LEAK_MARKER>>) THEN "tools_critic"
    ELSE IF s.score >= PASS_THRESHOLD \/ s.loop_count > MAX_ITERATIONS THEN "END"
    ELSE "increment_loop"

\* mutant of critic_router: the pass threshold compared with > instead of >=
critic_router_StrictThreshold(s) ==
    LET last_message == Last(s.critic_messages) IN
    IF last_message.tool_calls # <<>> THEN "tools_critic"
    ELSE IF Contains(last_message.content, <<LEAK_MARKER>>) THEN "tools_critic"
    ELSE IF s.score > PASS_THRESHOLD \/ s.loop_count >= MAX_ITERATIONS THEN "END"
    ELSE "increment_loop"

\* critic_router 221-243
critic_router(s) ==
    LET last_message == Last(s.critic_messages) IN
    IF last_message.tool_calls # <<>> THEN "tools_critic"
    ELSE IF Contains(last_message.content, <<LEAK_MARKER>>) THEN "tools_critic"
    ELSE IF s.score >= PASS_THRESHOLD \/ s.loop_count >= MAX_ITERATIONS THEN "END"
    ELSE "increment_loop"

\* mutant of writer_tools_node: the limit branch counts the turn as well
writer_tools_node_CountsAtLimit(s, outs) ==
    LET last_msg == Last(s.writer_messages) IN
    IF s.writer_tool_count >= BUDGET_MAX
    THEN [s EXCEPT !.writer_messages =
              add_messages(@, <<SystemMessage(WRITER_LIMIT_RAW)>>),
                   !.writer_tool_count = @ + 1]
    ELSE IF last_msg.tool_calls = <<>>
    THEN [s EXCEPT !.writer_messages =
             add_messages(@, <<SystemMessage(WRITER_RAW_WARNING)>>)]
    ELSE [s EXCEPT !.writer_messages = add_messages(@, ToolNode(last_msg, outs)),
                   !.writer_tool_count = @ + 1]

\* mutant of writer_tools_node: the counter counts calls, not turns
writer_tools_node_CountsCalls(s, outs) ==
    LET last_msg == Last(s.writer_messages) IN
    IF s.writer_tool_count >= BUDGET_MAX
    THEN IF last_msg.tool_calls # <<>>
         THEN [s EXCEPT !.writer_messages = add_messages(@,
                  [i \in 1..Len(last_msg.tool_calls) |->
                      ToolMessage(last_msg.tool_calls[i].id, WRITER_LIMIT_ERROR, "")])]
         ELSE [s EXCEPT !.writer_messages =
                  add_messages(@, <<SystemMessage(WRITER_LIMIT_RAW)>>)]
    ELSE IF last_msg.tool_calls = <<>>
    THEN [s EXCEPT !.writer_messages =
             add_messages(@, <<SystemMessage(WRITER_RAW_WARNING)>>)]
    ELSE [s EXCEPT !.writer_messages = add_messages(@, ToolNode(last_msg, outs)),
                   !.writer_tool_count = @ + Len(last_msg.tool_calls)]

\* writer_tools_node 245-284
writer_tools_node(s, outs) ==
    LET last_msg == Last(s.writer_messages) IN
    IF s.writer_tool_count >= BUDGET_MAX
    THEN IF last_msg.tool_calls # <<>>
         THEN [s EXCEPT !.writer_messages = add_messages(@,
                  [i \in 1..Len(last_msg.tool_calls) |->
                      ToolMessage(last_msg.tool_calls[i].id, WRITER_LIMIT_ERROR, "")])]
         ELSE [s EXCEPT !.writer_messages =
                  add_messages(@, <<SystemMessage(WRITER_LIMIT_RAW)>>)]
    ELSE IF last_msg.tool_calls = <<>>
    THEN [s EXCEPT !.writer_messages =
             add_messages(@, <<SystemMessage(WRITER_RAW_WARNING)>>)]
    ELSE [s EXCEPT !.writer_messages = add_messages(@, ToolNode(last_msg, outs)),
                   !.writer_tool_count = @ + 1]

\* critic_tools_node 286-325
critic_tools_node(s, outs) ==
    LET last_msg == Last(s.critic_messages) IN
    IF s.critic_tool_count >= BUDGET_MAX
    THEN IF last_msg.tool_calls # <<>>
         THEN [s EXCEPT !.critic_messages = add_messages(@,
                  [i \in 1..Len(last_msg.tool_calls) |->
                      ToolMessage(last_msg.tool_calls[i].id, CRITIC_LIMIT_ERROR, "")])]
         ELSE [s EXCEPT !.critic_messages =
                  add_messages(@, <<SystemMessage(CRITIC_LIMIT_RAW)>>)]
    ELSE IF last_msg.tool_calls = <<>>
    THEN [s EXCEPT !.critic_messages =
             add_messages(@, <<SystemMessage(CRITIC_RAW_WARNING)>>)]
    ELSE [s EXCEPT !.critic_messages = add_messages(@, ToolNode(last_msg, outs)),
                   !.critic_tool_count = @ + 1]

\* increment_loop 327-333
increment_loop(s) ==
    [s EXCEPT !.loop_count = @ + 1, !.writer_tool_count = 0, !.critic_tool_count = 0]

\* mutant of reset_critic_tools: both counters are reset, as in increment_loop
reset_critic_tools_ResetsBoth(s) ==
    [s EXCEPT !.writer_tool_count = 0, !.critic_tool_count = 0]

\* reset_critic_tools 335-337
reset_critic_tools(s) == [s EXCEPT !.critic_tool_count = 0]

\* server.py 192-197 / 296-301: initial_input merged into the thread's state
\* mutant of initial_input: the request starts from a fresh state that keeps
\* the histories only
initial_input_FreshState(s, topic) ==
    [EmptyState EXCEPT
        !.writer_messages =
            add_messages(s.writer_messages,
                         <<SystemMessage(SYSTEM_PROMPT), HumanMessage(topic)>>),
        !.critic_messages = s.critic_messages,
        !.current_draft = s.current_draft]

initial_input(s, topic) ==
    [s EXCEPT !.writer_messages =
        add_messages(@, <<SystemMessage(SYSTEM_PROMPT), HumanMessage(topic)>>)]

\* ------------------------------------------------- the checkpointed graph
VARIABLES
    sess,   \* thread id -> AgentState kept by the MemorySaver checkpointer
    pc,     \* thread id -> the node the thread's run executes next; "idle" before
            \* the first request, "END" after a run ended, "out_of_steps" after
            \* the run was stopped by the recursion limit, "failed" after a
            \* node raised
    steps,  \* thread id -> nodes executed by the thread's current run
    llm,    \* thread id -> the provider calls made by the generation node the
            \* thread executed last: [messages, tools, error] per call
    stream  \* thread id -> the requests that arrived on the thread while a run
            \* was in flight: runs = the run of each ([s, pc, steps]: the
            \* state its loop holds, its position, its executed nodes), mine =
            \* the state held by the loop of the run of pc[t] (kept once
            \* runs is not empty; sess[t] is then the state saved last,
            \* by whichever run), turns = whose nodes ran since (1 = the
            \* run of pc[t], k + 1 = runs[k]), repeats dropped
vars == <<sess, pc, steps, llm, stream>>

Nodes == {"writer", "tools_writer", "reset_critic", "critic", "tools_critic",
          "increment_loop"}

\* no request has arrived while a run was in flight
NoStream == [mine |-> EmptyState, runs |-> <<>>, turns |-> <<>>]
\* run k of the thread executes a node: the order of the runs' turns, kept
\* once a request has arrived while a run was in flight
Mark(st, k) ==
    IF \/ st.runs = <<>>
       \/ Len(st.turns) >= MaxTurns
       \/ (st.turns # <<>> /\ st.turns[Len(st.turns)] = k)
    THEN st
    ELSE [st EXCEPT !.turns = Append(@, k)]

Init ==
    /\ sess = [t \in Threads |-> EmptyState]
    /\ pc = [t \in Threads |-> "idle"]
    /\ steps = [t \in Threads |-> 0]
    /\ llm = [t \in Threads |-> <<>>]
    /\ stream = [t \in Threads |-> NoStream]

\* llm.invoke(messages) (tools = FALSE) / llm_with_tools.invoke(messages)
\* (tools = TRUE); error is str(e) of the BadRequestError raised, <<>> if none
Invoke(messages, tools, error) ==
    [messages |-> messages, tools |-> tools, error |-> error]

\* the state the run of pc[t] works on: a run loads the thread's checkpoint
\* when it starts and holds the state itself from then on, saving it after
\* every node
Memory(t) == IF stream[t].runs = <<>> THEN sess[t] ELSE stream[t].mine

\* a node of thread t runs: the run has steps left under recursion_limit
Runs(t, node) == pc[t] = node /\ steps[t] < RECURSION_LIMIT
\* mutant of Goto: one state for all threads, the thread id is not the key
Goto_SharedState(t, s, next) ==
    /\ sess' = [u \in Threads |-> s]
    /\ pc' = [pc EXCEPT ![t] = next]
    /\ steps' = [steps EXCEPT ![t] = @ + 1]
    /\ stream' = [stream EXCEPT ![t] =
                     IF @.runs = <<>> THEN @ ELSE Mark([@ EXCEPT !.mine = s], 1)]

\* the node's update is checkpointed and the edge out of it is taken
Goto(t, s, next) ==
    /\ sess' = [sess EXCEPT ![t] = s]
    /\ pc' = [pc EXCEPT ![t] = next]
    /\ steps' = [steps EXCEPT ![t] = @ + 1]
    /\ stream' = [stream EXCEPT ![t] =
                     IF @.runs = <<>> THEN @ ELSE Mark([@ EXCEPT !.mine = s], 1)]
\* the node raises: the run ends with the exception and no update is
\* checkpointed; saved is the state the checkpointer then holds for the thread
Raise(t, calls, saved) ==
    /\ pc' = [pc EXCEPT ![t] = "failed"]
    /\ llm' = [llm EXCEPT ![t] = calls]
    /\ sess' = [sess EXCEPT ![t] = saved]
    /\ UNCHANGED <<steps, stream>>

\* research_sync / research_stream: a request with this thread_id and topic,
\* made when the run of pc[t] is over, however it ended (the endpoints test
\* nothing); the run starts from the state saved last plus the input and the
\* graph is entered at "writer" (workflow.set_entry_point)
Request(t, topic) ==
    /\ pc[t] \in {"idle", "END", "failed", "out_of_steps"}
    /\ sess' = [sess EXCEPT ![t] = initial_input(@, topic)]
    /\ pc' = [pc EXCEPT ![t] = "writer"]
    /\ steps' = [steps EXCEPT ![t] = 0]
    /\ llm' = [llm EXCEPT ![t] = <<>>]
    /\ stream' = [stream EXCEPT ![t] =
                     IF @.runs = <<>> THEN @
                     ELSE [@ EXCEPT !.mine = initial_input(sess[t], topic)]]

\* node "writer" and its conditional edge (workflow 352-356)
WriterStep(t, resp) ==
    /\ Runs(t, "writer")
    /\ resp.tool_calls # <<>> => WriterToolsBound(Memory(t))
    /\ LET s == writer_node(Memory(t), resp) IN
       Goto(t, s, IF writer_router(s) = "critic" THEN "reset_critic"
                  ELSE "tools_writer")
    /\ llm' = [llm EXCEPT ![t] =
                  <<Invoke(WriterInput(Memory(t)), WriterToolsBound(Memory(t)), <<>>)>>]

\* node "writer": the call is rejected (error e), the last message is replaced
\* and the retry is answered by resp
WriterRetryStep(t, e, resp) ==
    /\ Runs(t, "writer")
    /\ WriterRecovers(Memory(t), e)
    /\ LET s == writer_node_retry(Memory(t), resp) IN
       Goto(t, s, IF writer_router(s) = "critic" THEN "reset_critic"
                  ELSE "tools_writer")
    /\ llm' = [llm EXCEPT ![t] =
                  <<Invoke(WriterInput(Memory(t)), WriterToolsBound(Memory(t)), e),
                    Invoke(Sanitized(WriterInput(Memory(t))), TRUE, <<>>)>>]

\* node "writer": the call is rejected (error e) and e is raised again
WriterRaiseStep(t, e) ==
    /\ Runs(t, "writer")
    /\ ~WriterRecovers(Memory(t), e)
    /\ Raise(t, <<Invoke(WriterInput(Memory(t)), WriterToolsBound(Memory(t)), e)>>,
             sess[t])

\* writer_node 118 has replaced the last message in the list the state holds
\* when the node raises. The node returns no update, so what the replacement
\* does to the saved state is the checkpointer's matter: a saver that keeps
\* the state's objects (shared) shows it, one that keeps a serialized copy
\* does not. It can only show in the state saved by this run.
AfterFailedRetry(saved, held, shared) ==
    IF shared /\ saved = held
    THEN [saved EXCEPT !.writer_messages = Sanitized(@)]
    ELSE saved

\* node "writer": the call is rejected (error e), the retry as well (error e2)
WriterRetryRaiseStep(t, e, e2, shared) ==
    /\ Runs(t, "writer")
    /\ WriterRecovers(Memory(t), e)
    /\ Raise(t, <<Invoke(WriterInput(Memory(t)), WriterToolsBound(Memory(t)), e),
                  Invoke(Sanitized(WriterInput(Memory(t))), TRUE, e2)>>,
             AfterFailedRetry(sess[t], Memory(t), shared))

\* node "tools_writer" and the edge back to "writer" (workflow 360)
WriterToolsStep(t, outs) ==
    /\ Runs(t, "tools_writer")
    /\ Goto(t, writer_tools_node(Memory(t), outs), "writer")
    /\ llm' = [llm EXCEPT ![t] = <<>>]

\* node "reset_critic" and the edge to "critic" (workflow 359)
ResetCriticStep(t) ==
    /\ Runs(t, "reset_critic")
    /\ Goto(t, reset_critic_tools(Memory(t)), "critic")
    /\ llm' = [llm EXCEPT ![t] = <<>>]

\* node "critic" and its conditional edge (workflow 363-371)
CriticStep(t, resp) ==
    /\ Runs(t, "critic")
    /\ resp.tool_calls # <<>> => CriticToolsBound(Memory(t))
    /\ LET s == critic_node(Memory(t), resp) IN Goto(t, s, critic_router(s))
    /\ llm' = [llm EXCEPT ![t] =
                  <<Invoke(CriticInput(Memory(t)), CriticToolsBound(Memory(t)), <<>>)>>]

\* node "critic": the call is rejected (error e); critic_node catches nothing
CriticRaiseStep(t, e) ==
    /\ Runs(t, "critic")
    /\ Raise(t, <<Invoke(CriticInput(Memory(t)), CriticToolsBound(Memory(t)), e)>>,
             sess[t])

\* node "tools_critic" and the edge back to "critic" (workflow 373)
CriticToolsStep(t, outs) ==
    /\ Runs(t, "tools_critic")
    /\ Goto(t, critic_tools_node(Memory(t), outs), "critic")
    /\ llm' = [llm EXCEPT ![t] = <<>>]

\* node "increment_loop" and the edge to "writer" (workflow 374)
IncrementLoopStep(t) ==
    /\ Runs(t, "increment_loop")
    /\ Goto(t, increment_loop(Memory(t)), "writer")
    /\ llm' = [llm EXCEPT ![t] = <<>>]

\* the run is stopped (GraphRecursionError) with a node still to run
OutOfSteps(t) ==
    /\ pc[t] \in Nodes
    /\ steps[t] >= RECURSION_LIMIT
    /\ pc' = [pc EXCEPT ![t] = "out_of_steps"]
    /\ UNCHANGED <<sess, steps, llm, stream>>

\* the provider calls a generation node makes on state s when the first call
\* is answered with error e (<<>>: answered) and, if it is retried, the retry
\* with error e2
CallsOf(s, node, e, e2) ==
    IF node = "writer"
    THEN <<Invoke(WriterInput(s), WriterToolsBound(s), e)>>
         \o (IF e # <<>> /\ WriterRecovers(s, e)
             THEN <<Invoke(Sanitized(WriterInput(s)), TRUE, e2)>> ELSE <<>>)
    ELSE IF node = "critic"
    THEN <<Invoke(CriticInput(s), CriticToolsBound(s), e)>>
    ELSE <<>>

\* one node of the graph and the edge out of it, on the state s a run holds;
\* e is the error of a Writer call that is recovered from (<<>>: none)
RunNode(s, node, e, resp, outs) ==
    CASE node = "writer" ->
           LET n == IF e = <<>> THEN writer_node(s, resp)
                    ELSE writer_node_retry(s, resp)
           IN  [s |-> n, pc |-> IF writer_router(n) = "critic" THEN "reset_critic"
                                ELSE "tools_writer"]
      [] node = "tools_writer" -> [s |-> writer_tools_node(s, outs), pc |-> "writer"]
      [] node = "reset_critic" -> [s |-> reset_critic_tools(s), pc |-> "critic"]
      [] node = "critic" ->
           LET n == critic_node(s, resp) IN [s |-> n, pc |-> critic_router(n)]
      [] node = "tools_critic" -> [s |-> critic_tools_node(s, outs), pc |-> "critic"]
      [] node = "increment_loop" -> [s |-> increment_loop(s), pc |-> "writer"]

\* a run of thread t is between two nodes
InFlight(t) ==
    \/ pc[t] \in Nodes
    \/ \E k \in 1..Len(stream[t].runs) : stream[t].runs[k].pc \in Nodes

\* research_stream: a request with thread id t arrives while a run of the
\* thread is between two nodes (its event_generator is suspended at a yield
\* or at asyncio.sleep(0)). It is the same call as any request:
\* langgraph_app.stream(initial_input, config) loads the state saved last for
\* t, adds the seed messages, saves that and enters the graph at "writer".
SecondStreamStart(t, topic) ==
    /\ InFlight(t)
    /\ sess' = [sess EXCEPT ![t] = initial_input(@, topic)]
    /\ stream' = [stream EXCEPT ![t] =
                     [mine |-> Memory(t),
                      runs |-> Append(@.runs, [s |-> initial_input(sess[t], topic),
                                               pc |-> "writer", steps |-> 0]),
                      turns |-> @.turns]]
    /\ llm' = [llm EXCEPT ![t] = <<>>]
    /\ UNCHANGED <<pc, steps>>

\* event_generator of run k of stream[t].runs executes the next node of its
\* run (one iteration of "for event in langgraph_app.stream(...)"): the node
\* works on the state the run holds and its update is saved for thread t; a
\* run that has used its recursion_limit is stopped instead
SecondStreamStep(t, k, e, resp, outs) ==
    LET r == stream[t].runs[k] IN
    /\ r.pc \in Nodes
    /\ IF r.steps >= RECURSION_LIMIT
       THEN /\ stream' = [stream EXCEPT ![t].runs[k].pc = "out_of_steps"]
            /\ UNCHANGED <<sess, llm>>
       ELSE /\ e # <<>> => (r.pc = "writer" /\ WriterRecovers(r.s, e))
            /\ (r.pc = "writer" /\ e = <<>> /\ resp.tool_calls # <<>>)
                   => WriterToolsBound(r.s)
            /\ (r.pc = "critic" /\ resp.tool_calls # <<>>) => CriticToolsBound(r.s)
            /\ LET n == RunNode(r.s, r.pc, e, resp, outs) IN
               /\ sess' = [sess EXCEPT ![t] = n.s]
               /\ stream' = [stream EXCEPT ![t] =
                                Mark([@ EXCEPT !.runs[k] =
                                         [s |-> n.s, pc |-> n.pc, steps |-> r.steps + 1]],
                                     k + 1)]
            /\ llm' = [llm EXCEPT ![t] = CallsOf(r.s, r.pc, e, <<>>)]
    /\ UNCHANGED <<pc, steps>>

\* a generation node of run k raises: the call is rejected (error e) and,
\* where the Writer retries it, the retry as well (error e2); nothing is saved
SecondStreamRaise(t, k, e, e2, shared) ==
    LET r == stream[t].runs[k] IN
    /\ r.pc \in {"writer", "critic"}
    /\ r.steps < RECURSION_LIMIT
    /\ stream' = [stream EXCEPT ![t].runs[k].pc = "failed"]
    /\ llm' = [llm EXCEPT ![t] = CallsOf(r.s, r.pc, e, e2)]
    /\ sess' = [sess EXCEPT ![t] =
                   IF r.pc = "writer" /\ WriterRecovers(r.s, e)
                   THEN AfterFailedRetry(@, r.s, shared) ELSE @]
    /\ UNCHANGED <<pc, steps>>

\* ------------------------------------------------------------ environment
Call(id, name) == [id |-> id, name |-> name]
Resp(content, tool_calls) == [content |-> content, tool_calls |-> tool_calls]

Topics == {<<"X">>, <<"Add more detail">>}

TOOL_ONE == Resp(<<>>, <<Call("c1", "search_web")>>)
TOOL_TWO == Resp(<<>>, <<Call("c1", "search_web"), Call("c2", "visit_page")>>)
LEAK == Resp(<<LEAK_MARKER, "search_web">>, <<>>)
DRAFT_ONE == Resp(<<"draft one">>, <<>>)
DRAFT_TWO == Resp(<<"draft two">>, <<>>)
\* neither text nor tool call
EMPTY == Resp(<<>>, <<>>)
VERDICT_5 ==
    Resp(<<"<advice>", "\n", "Add more detail", "\n", "</advice>", "\n",
           "<score>", "\t", "5", " ", "</score>">>, <<>>)
VERDICT_8 == Resp(<<"<score>", "8", "</score>">>, <<>>)
VERDICT_9 ==
    Resp(<<"<score>", "9", "</score>", "<advice>", "No changes needed", "</advice>">>,
         <<>>)
UNSCORED == Resp(<<"<score>", "high", "</score>", "\n", "needs work">>, <<>>)

\* str(e) of the BadRequestError the provider may answer a call with
RISK_ERROR == <<"Error code: 400 - ", "Content Exists Risk">>
OTHER_ERROR == <<"Error code: 400 - ", "maximum context length exceeded">>
Errors == {RISK_ERROR, OTHER_ERROR}

\* what the provider may answer to the Writer / to the Critic
WriterResponses == {TOOL_ONE, TOOL_TWO, LEAK, DRAFT_ONE, DRAFT_TWO, EMPTY}
CriticResponses == {TOOL_ONE, LEAK, VERDICT_5, VERDICT_8, VERDICT_9, UNSCORED}
\* the outcomes of the tools' network calls
ToolResults(msgs) ==
    IF msgs # <<>> /\ Last(msgs).tool_calls # <<>>
    THEN BatchOutcomes(Last(msgs).tool_calls) ELSE {<<>>}

\* ---------------------------------------------------------- specification
\* Spec: one thread, any provider answer (a rejected call included), any tool
\* outcome, any number of requests, every history cut at MaxWriterMsgs /
\* MaxCriticMsgs messages.
Fits(t) ==
    /\ Len(sess[t].writer_messages) <= MaxWriterMsgs
    /\ Len(sess[t].critic_messages) <= MaxCriticMsgs

SpecThreads == {"A"}

Next ==
    \/ \E t \in SpecThreads, topic \in Topics : Request(t, topic) /\ Fits(t)'
    \/ \E t \in SpecThreads, resp \in WriterResponses : WriterStep(t, resp) /\ Fits(t)'
    \/ \E t \in SpecThreads : \E outs \in ToolResults(Memory(t).writer_messages) :
           WriterToolsStep(t, outs) /\ Fits(t)'
    \/ \E t \in SpecThreads : ResetCriticStep(t)
    \/ \E t \in SpecThreads, resp \in CriticResponses : CriticStep(t, resp) /\ Fits(t)'
    \/ \E t \in SpecThreads : \E outs \in ToolResults(Memory(t).critic_messages) :
           CriticToolsStep(t, outs) /\ Fits(t)'
    \/ \E t \in SpecThreads : IncrementLoopStep(t)
    \/ \E t \in SpecThreads, e \in Errors, resp \in WriterResponses :
           WriterRetryStep(t, e, resp) /\ Fits(t)'
    \/ \E t \in SpecThreads, e \in Errors : WriterRaiseStep(t, e)
    \/ \E t \in SpecThreads, e \in Errors, e2 \in Errors, shared \in BOOLEAN :
           WriterRetryRaiseStep(t, e, e2, shared)
    \/ \E t \in SpecThreads, e \in Errors : CriticRaiseStep(t, e)

Spec == Init /\ [][Next]_vars

\* SpecHungry: one request on one thread, answered by a provider that asks for
\* a tool whenever tools are bound and, once they are not, answers with text
\* (well-formed or leaking the marker) or, for a role whose budget is used up,
\* rejects the call; every tool call succeeds. Histories are not cut: a run
\* ends at END, with the raised error or at the recursion limit.
HungryWriter(s) == IF WriterToolsBound(s) THEN {TOOL_TWO} ELSE {LEAK, DRAFT_ONE}
HungryCritic(s) ==
    IF CriticToolsBound(s) THEN {TOOL_ONE} ELSE {LEAK, VERDICT_5, VERDICT_9, UNSCORED}
AllOk(msgs) ==
    IF msgs # <<>> /\ Last(msgs).tool_calls # <<>>
    THEN {[i \in 1..Len(Last(msgs).tool_calls) |-> "ok"]} ELSE {<<>>}

NextHungry ==
    \/ \E t \in SpecThreads : pc[t] = "idle" /\ Request(t, <<"X">>)
    \/ \E t \in SpecThreads : \E resp \in HungryWriter(Memory(t)) : WriterStep(t, resp)
    \/ \E t \in SpecThreads : \E outs \in AllOk(Memory(t).writer_messages) :
           WriterToolsStep(t, outs)
    \/ \E t \in SpecThreads : ResetCriticStep(t)
    \/ \E t \in SpecThreads : \E resp \in HungryCritic(Memory(t)) : CriticStep(t, resp)
    \/ \E t \in SpecThreads : \E outs \in AllOk(Memory(t).critic_messages) :
           CriticToolsStep(t, outs)
    \/ \E t \in SpecThreads : IncrementLoopStep(t)
    \/ \E t \in SpecThreads : OutOfSteps(t)
    \/ \E t \in SpecThreads, e \in Errors :
           ~WriterToolsBound(Memory(t)) /\ WriterRaiseStep(t, e)
    \/ \E t \in SpecThreads, e \in Errors :
           ~CriticToolsBound(Memory(t)) /\ CriticRaiseStep(t, e)

SpecHungry == Init /\ [][NextHungry]_vars

\* a provider that asks for at most one tool turn per role and iteration and
\* answers with well-formed text otherwise
LazyWriter(s) ==
    IF s.writer_tool_count = 0 THEN {TOOL_ONE, DRAFT_ONE} ELSE {DRAFT_ONE}
LazyCritic(s) ==
    IF s.critic_tool_count = 0 THEN {TOOL_ONE, VERDICT_5, VERDICT_9}
    ELSE {VERDICT_5, VERDICT_9}

\* SpecTwo: one request on each of the two threads, their runs interleaved in
\* every order; the provider is the lazy one and every tool call succeeds.
NextTwo ==
    \/ \E t \in Threads : pc[t] = "idle" /\ Request(t, <<"X">>)
    \/ \E t \in Threads : \E resp \in LazyWriter(Memory(t)) : WriterStep(t, resp)
    \/ \E t \in Threads : \E outs \in AllOk(Memory(t).writer_messages) :
           WriterToolsStep(t, outs)
    \/ \E t \in Threads : ResetCriticStep(t)
    \/ \E t \in Threads : \E resp \in LazyCritic(Memory(t)) : CriticStep(t, resp)
    \/ \E t \in Threads : \E outs \in AllOk(Memory(t).critic_messages) :
           CriticToolsStep(t, outs)
    \/ \E t \in Threads : IncrementLoopStep(t)

SpecTwo == Init /\ [][NextTwo]_vars

\* SpecStream: up to MaxInFlight streaming requests with the same thread id,
\* each but the first arriving while a run of the thread is in flight; the
\* event loop resumes any generator that is suspended. The provider answers a
\* call with well-formed text or rejects it, so no tool node runs.
TerseWriter == {DRAFT_ONE}
TerseCritic == {VERDICT_5, VERDICT_9}
StreamResponses(r) ==
    IF r.pc = "writer" THEN TerseWriter
    ELSE IF r.pc = "critic" THEN TerseCritic ELSE {EMPTY}
StreamOutcomes(r) ==
    IF r.pc = "tools_writer" THEN AllOk(r.s.writer_messages)
    ELSE IF r.pc = "tools_critic" THEN AllOk(r.s.critic_messages) ELSE {<<>>}

NextStream ==
    \/ \E t \in SpecThreads : pc[t] = "idle" /\ Request(t, <<"X">>)
    \/ \E t \in SpecThreads : \E resp \in TerseWriter : WriterStep(t, resp)
    \/ \E t \in SpecThreads : ResetCriticStep(t)
    \/ \E t \in SpecThreads : \E resp \in TerseCritic : CriticStep(t, resp)
    \/ \E t \in SpecThreads : IncrementLoopStep(t)
    \/ \E t \in SpecThreads, e \in Errors : WriterRaiseStep(t, e)
    \/ \E t \in SpecThreads, e \in Errors : CriticRaiseStep(t, e)
    \/ \E t \in SpecThreads :
           Len(stream[t].runs) + 1 < MaxInFlight /\ SecondStreamStart(t, <<"Y">>)
    \/ \E t \in SpecThreads : \E k \in 1..Len(stream[t].runs) :
           \E e \in {<<>>} \cup Errors,
              resp \in StreamResponses(stream[t].runs[k]),
              outs \in StreamOutcomes(stream[t].runs[k]) :
               SecondStreamStep(t, k, e, resp, outs)
    \/ \E t \in SpecThreads : \E k \in 1..Len(stream[t].runs) :
           \E e \in Errors, e2 \in Errors, shared \in BOOLEAN :
               SecondStreamRaise(t, k, e, e2, shared)

SpecStream == Init /\ [][NextStream]_vars

\* SpecResume: up to MaxRequests requests on one thread, each made when the
\* thread has no run or its last run has ended. The Writer asks for at most
\* one tool turn per iteration, the Critic answers every review with a scored
\* verdict, every tool call succeeds.
\* The seeded system prompts in the Writer history of s: one for every request
\* whose input is part of s (a request made one after the other adds one; the
\* system messages a tool node adds are no seeds)
Seeds(s) ==
    Cardinality({i \in 1..Len(s.writer_messages) :
                    s.writer_messages[i] = SystemMessage(SYSTEM_PROMPT)})

NextResume ==
    \/ \E t \in SpecThreads, topic \in Topics :
           /\ pc[t] \in {"idle", "END"}
           /\ Seeds(Memory(t)) < MaxRequests
           /\ Request(t, topic)
    \/ \E t \in SpecThreads : \E resp \in LazyWriter(Memory(t)) : WriterStep(t, resp)
    \/ \E t \in SpecThreads : \E outs \in AllOk(Memory(t).writer_messages) :
           WriterToolsStep(t, outs)
    \/ \E t \in SpecThreads : ResetCriticStep(t)
    \/ \E t \in SpecThreads : \E resp \in TerseCritic : CriticStep(t, resp)
    \/ \E t \in SpecThreads : IncrementLoopStep(t)

SpecResume == Init /\ [][NextResume]_vars

\* ------------------------------------------------------------- properties
Session(t) == sess[t]
\* thread t executed a node in this step
Stepped(t) == steps'[t] = steps[t] + 1
\* a response without structured tool call and without the leak marker
TextOnly(m) == m.tool_calls = <<>> /\ ~Contains(m.content, <<LEAK_MARKER>>)
\* a response leaking the marker instead of a structured tool call
Malformed(m) ==
    m.type = "ai" /\ m.tool_calls = <<>> /\ Contains(m.content, <<LEAK_MARKER>>)

\* C1: writer_tool_count and critic_tool_count are always in 0..6; a counter
\* changes only by +1 in its role's tool node while it is below 6, or to 0.
C1_ToolCountsBounded ==
    /\ [](\A t \in Threads :
            /\ sess[t].writer_tool_count \in 0..BUDGET_MAX
            /\ sess[t].critic_tool_count \in 0..BUDGET_MAX)
    /\ [][\A t \in Threads :
            /\ sess'[t].writer_tool_count # sess[t].writer_tool_count =>
                 \/ sess'[t].writer_tool_count = 0
                 \/ /\ pc[t] = "tools_writer"
                    /\ sess[t].writer_tool_count < BUDGET_MAX
                    /\ sess'[t].writer_tool_count = sess[t].writer_tool_count + 1
            /\ sess'[t].critic_tool_count # sess[t].critic_tool_count =>
                 \/ sess'[t].critic_tool_count = 0
                 \/ /\ pc[t] = "tools_critic"
                    /\ sess[t].critic_tool_count < BUDGET_MAX
                    /\ sess'[t].critic_tool_count = sess[t].critic_tool_count + 1]_vars
\* the Writer's tool node has run with the counter at 6 and left it there
C1_Witness ==
    /\ pc["A"] = "writer"
    /\ sess["A"].writer_tool_count = BUDGET_MAX
    /\ Last(sess["A"].writer_messages) = SystemMessage(WRITER_LIMIT_RAW)

\* C2: loop_count is always in 0..2, starts at 0, never decreases and changes
\* only by +1 in increment_loop, taken only when loop_count < 2 and score < 8.
C2_LoopCountBounded ==
    /\ \A t \in Threads : sess[t].loop_count = 0
    /\ [](\A t \in Threads : sess[t].loop_count \in 0..MAX_ITERATIONS)
    /\ [][\A t \in Threads :
            sess'[t].loop_count # sess[t].loop_count =>
                /\ pc[t] = "increment_loop"
                /\ sess'[t].loop_count = sess[t].loop_count + 1
                /\ sess[t].loop_count < MAX_ITERATIONS
                /\ sess[t].score < PASS_THRESHOLD]_vars
\* a run ended by the iteration cap, not by the score
C2_Witness ==
    /\ pc["A"] = "END"
    /\ sess["A"].loop_count = MAX_ITERATIONS
    /\ sess["A"].score < PASS_THRESHOLD

\* the score each sample verdict text carries
VerdictScore(content) ==
    CASE content = VERDICT_5.content -> 5
      [] content = VERDICT_8.content -> 8
      [] content = VERDICT_9.content -> 9
      [] OTHER -> 0

\* C3: after a text-only Critic response the run goes to END iff the response's
\* score is >= 8 or loop_count >= 2, and to increment_loop otherwise;
\* increment_loop adds one to loop_count and zeroes both tool counters before
\* the Writer runs; the verdict with score 9 ends the run with score = 9 at
\* every loop_count.
C3_CriticVerdictRouting ==
    [][\A t \in Threads :
        /\ (pc[t] = "critic" /\ Stepped(t)
            /\ TextOnly(Last(sess'[t].critic_messages))) =>
              LET r == Last(sess'[t].critic_messages) IN
              /\ sess'[t].score = VerdictScore(r.content)
              /\ pc'[t] \in {"END", "increment_loop"}
              /\ pc'[t] = "END" <=>
                   (VerdictScore(r.content) >= 8 \/ sess[t].loop_count >= 2)
              /\ r.content = VERDICT_9.content =>
                   pc'[t] = "END" /\ sess'[t].score = 9
        /\ (pc[t] = "increment_loop" /\ Stepped(t)) =>
              /\ pc'[t] = "writer"
              /\ sess'[t].loop_count = sess[t].loop_count + 1
              /\ sess'[t].writer_tool_count = 0
              /\ sess'[t].critic_tool_count = 0]_vars
\* the score-9 verdict has ended a run in its last iteration
C3_Witness ==
    /\ pc["A"] = "END"
    /\ sess["A"].score = 9
    /\ sess["A"].loop_count = MAX_ITERATIONS
    /\ Last(sess["A"].critic_messages).content = VERDICT_9.content

\* C4: a text-only Critic response without a parsable score is no error: score
\* becomes 0, and the run goes to increment_loop while loop_count < 2 and to
\* END (with score 0) when loop_count = 2.
C4_UnparsableScoreDefaults ==
    [][\A t \in Threads :
        (pc[t] = "critic" /\ Stepped(t)
         /\ TextOnly(Last(sess'[t].critic_messages))
         /\ Last(sess'[t].critic_messages).content = UNSCORED.content) =>
            /\ sess'[t].score = 0
            /\ sess[t].loop_count < 2 => pc'[t] = "increment_loop"
            /\ sess[t].loop_count = 2 => pc'[t] = "END"]_vars
\* the first Critic verdict of a session carried no parsable score
C4_Witness ==
    /\ pc["A"] = "increment_loop"
    /\ sess["A"].loop_count = 0
    /\ sess["A"].score = 0
    /\ Last(sess["A"].critic_messages).content = UNSCORED.content

\* no response of the thread's histories leaks the marker
NoMalformed(t) ==
    /\ \A i \in 1..Len(sess[t].writer_messages) : ~Malformed(sess[t].writer_messages[i])
    /\ \A i \in 1..Len(sess[t].critic_messages) : ~Malformed(sess[t].critic_messages[i])

\* C5: a run in which every response is a structured tool request or
\* marker-free text reaches END (it is never stopped short of END).
C5_WellFormedRunReachesEnd ==
    \A t \in Threads : NoMalformed(t) => pc[t] # "out_of_steps"

\* the malformed responses, each followed by its corrective system message,
\* that end a history
RECURSIVE MalformedStreak(_)
MalformedStreak(msgs) ==
    IF Len(msgs) >= 2 /\ Last(msgs).type = "system" /\ Malformed(msgs[Len(msgs) - 1])
    THEN 1 + MalformedStreak(SubSeq(msgs, 1, Len(msgs) - 2))
    ELSE 0

\* C6: the malformed-output recoveries a role makes in a row are bounded by its
\* tool-call budget.
C6_MalformedRecoveryWithinBudget ==
    \A t \in Threads :
        /\ MalformedStreak(sess[t].writer_messages) <= BUDGET_MAX
        /\ MalformedStreak(sess[t].critic_messages) <= BUDGET_MAX

\* C7: once a thread's run is at END nothing changes its session state.
C7_TerminalStateFrozen ==
    [][\A t \in Threads : pc[t] = "END" => sess'[t] = sess[t]]_vars

\* the user-role messages of a history that contain the text
UserMessagesWith(msgs, text) ==
    {i \in 1..Len(msgs) : msgs[i].type = "human" /\ Contains(msgs[i].content, text)}

\* C8: the critique advice is contained in at most one user-role message of
\* the Writer history.
C8_AdviceInAtMostOneUserMessage ==
    \A t \in Threads :
        sess[t].critique_advice # <<>> =>
            Cardinality(UserMessagesWith(sess[t].writer_messages,
                                         sess[t].critique_advice)) <= 1

\* the histories of the scenario of C9
ScenarioSearched ==
    <<SystemMessage(SYSTEM_PROMPT), HumanMessage(<<"X">>),
      AIMessage(TOOL_ONE, "writer"),
      ToolMessage("c1", search_web("ok"), "search_web")>>
ScenarioDrafted == ScenarioSearched \o <<AIMessage(DRAFT_ONE, "writer")>>
ScenarioRevised == ScenarioDrafted \o <<AIMessage(DRAFT_TWO, "writer")>>
ScenarioReviewed ==
    <<HumanMessage(ReviewText(DRAFT_ONE.content)), AIMessage(VERDICT_5, "critic")>>
ScenarioPassed ==
    ScenarioReviewed
    \o <<HumanMessage(ReviewText(DRAFT_TWO.content)), AIMessage(VERDICT_8, "critic")>>

\* the Writer history without the user-role messages that contain text
WithoutUserMessagesWith(msgs, text) ==
    SelectSeq(msgs, LAMBDA m : ~(m.type = "human" /\ Contains(m.content, text)))

\* C9: Writer searches once (counter 1) and drafts; Critic answers score 5 with
\* advice "Add more detail"; the run advances to loop_count 1 with both counters
\* 0; the Writer revises, the Critic answers score 8, and the run is at END
\* with the revised draft, score 8 and the advice in exactly one user-role
\* message of the Writer history (the provider rejecting no call of the run).
C9_Scenario ==
    LET s == sess["A"]
        advice == <<"Add more detail">>
        written == WithoutUserMessagesWith(s.writer_messages, advice)
    IN
    pc["A"] # "failed" =>
    /\ (s.writer_messages = ScenarioSearched /\ s.critic_messages = <<>>) =>
          pc["A"] = "writer" /\ s.writer_tool_count = 1
    /\ (written = ScenarioDrafted /\ s.critic_messages = ScenarioReviewed) =>
          /\ pc["A"] \in {"increment_loop", "writer"}
          /\ s.score = 5
          /\ s.critique_advice = advice
          /\ pc["A"] = "writer" =>
                /\ s.loop_count = 1
                /\ s.writer_tool_count = 0
                /\ s.critic_tool_count = 0
    /\ (written = ScenarioRevised /\ s.critic_messages = ScenarioPassed) =>
          /\ pc["A"] = "END"
          /\ s.current_draft = DRAFT_TWO.content
          /\ s.score = 8
          /\ s.loop_count = 1
          /\ Cardinality(UserMessagesWith(s.writer_messages, advice)) = 1

\* the strings a tool can return
ToolReturns(name) ==
    IF name = "search_web" THEN {search_web(o) : o \in SearchOutcomes}
    ELSE {visit_page(o) : o \in VisitOutcomes}
\* msgs2 is msgs1 followed by one tool-result message per call, in order,
\* each carrying its call's id and a return string of its tool
AnswersEveryCall(msgs1, msgs2, calls) ==
    /\ Len(msgs2) = Len(msgs1) + Len(calls)
    /\ SubSeq(msgs2, 1, Len(msgs1)) = msgs1
    /\ \A i \in 1..Len(calls) :
          LET m == msgs2[Len(msgs1) + i] IN
          /\ m.type = "tool"
          /\ m.tool_call_id = calls[i].id
          /\ m.content \in ToolReturns(calls[i].name)

\* C10: whatever the tools' outcomes (failures included), the tool step appends
\* a tool-result message with the tool's return string for every requested call
\* id, and the next step is the issuing role's generation step with those
\* messages in the history it sends.
C10_ToolFailureNotFatal ==
    [][\A t \in Threads :
        /\ (pc[t] = "tools_writer" /\ Stepped(t)
            /\ Last(sess[t].writer_messages).tool_calls # <<>>
            /\ sess[t].writer_tool_count < BUDGET_MAX) =>
              /\ pc'[t] = "writer"
              /\ AnswersEveryCall(sess[t].writer_messages, sess'[t].writer_messages,
                                  Last(sess[t].writer_messages).tool_calls)
              /\ SubSeq(WriterInput(sess'[t]), 1, Len(sess'[t].writer_messages))
                   = sess'[t].writer_messages
        /\ (pc[t] = "tools_critic" /\ Stepped(t)
            /\ Last(sess[t].critic_messages).tool_calls # <<>>
            /\ sess[t].critic_tool_count < BUDGET_MAX) =>
              /\ pc'[t] = "critic"
              /\ AnswersEveryCall(sess[t].critic_messages, sess'[t].critic_messages,
                                  Last(sess[t].critic_messages).tool_calls)
              /\ SubSeq(CriticInput(sess'[t]), 2, 1 + Len(sess'[t].critic_messages))
                   = sess'[t].critic_messages]_vars
\* both calls of a batch failed and the Writer is about to generate
C10_Witness ==
    LET msgs == sess["A"].writer_messages IN
    /\ pc["A"] = "writer"
    /\ Len(msgs) >= 2
    /\ Last(msgs) = ToolMessage("c2", visit_page("none"), "visit_page")
    /\ msgs[Len(msgs) - 1] = ToolMessage("c1", search_web("raise"), "search_web")

\* thread t executed (or failed in) the generation node of the role in this
\* step and the provider rejected the node's first call for content policy
Rejected(t, node) ==
    /\ pc[t] = node
    /\ pc'[t] # node
    /\ llm'[t] # <<>>
    /\ IsContentRisk(llm'[t][1].error)
\* the calls consist of the rejected call and one retry, made with tools on
\* the same messages except that the last one carries the placeholder
RetriedOnce(calls) ==
    /\ Len(calls) = 2
    /\ calls[2].tools
    /\ Len(calls[2].messages) = Len(calls[1].messages)
    /\ \A i \in 1..(Len(calls[1].messages) - 1) :
          calls[2].messages[i] = calls[1].messages[i]
    /\ Last(calls[2].messages).type = "tool"
    /\ Last(calls[2].messages).tool_call_id = Last(calls[1].messages).tool_call_id
    /\ Last(calls[2].messages).content = SAFE_FALLBACK

\* C11: a Writer generation call rejected for content policy while the Writer
\* history ends with a tool result is retried exactly once, with tools, on
\* the history whose last content is the placeholder, at every iteration and
\* counter value; when the history does not end with a tool result the run
\* fails with the error.
C11_WriterPolicyRecovery ==
    [][\A t \in Threads :
        Rejected(t, "writer") =>
            IF Last(sess[t].writer_messages).type = "tool"
            THEN RetriedOnce(llm'[t])
            ELSE pc'[t] = "failed" /\ Len(llm'[t]) = 1]_vars

\* C12: a Critic generation call rejected for content policy while the Critic
\* history ends with a tool result is recovered like the Writer's: the run does
\* not fail, the call is retried once on the history with the placeholder.
C12_CriticPolicyRecovery ==
    [][\A t \in Threads :
        (/\ Rejected(t, "critic")
         /\ sess[t].critic_messages # <<>>
         /\ Last(sess[t].critic_messages).type = "tool") =>
            pc'[t] # "failed" /\ RetriedOnce(llm'[t])]_vars

\* C13: a Writer response that leaks the marker without structured tool call
\* is routed to tools_writer (back to Writer generation, not to the Critic) and
\* its text is not stored as current_draft: current_draft never holds the
\* marker.
C13_LeakNeverDraft ==
    /\ [](\A t \in Threads : ~Contains(sess[t].current_draft, <<LEAK_MARKER>>))
    /\ [][\A t \in Threads :
            (pc[t] = "writer" /\ Stepped(t)
             /\ Malformed(Last(sess'[t].writer_messages))) =>
                /\ pc'[t] = "tools_writer"
                /\ sess'[t].current_draft # Last(sess'[t].writer_messages).content]_vars

\* every string search_web or visit_page can return
AllToolReturns == ToolReturns("search_web") \cup ToolReturns("visit_page")
\* no message appended to msgs1 to give msgs2 carries a tool's return string
NoToolRun(msgs1, msgs2) ==
    /\ Len(msgs2) >= Len(msgs1)
    /\ \A i \in (Len(msgs1) + 1)..Len(msgs2) : msgs2[i].content \notin AllToolReturns

\* thread t executed the generation node in this step, or the node raised
Generated(t, node) == pc[t] = node /\ (Stepped(t) \/ pc'[t] = "failed")

\* C14: with a role's counter at 6 (or more) every generation call of the role
\* is made without tools, and the role's tool step runs no tool: it appends no
\* tool return and leaves the counter as it is.
C14_NoToolsAtBudget ==
    [][\A t \in Threads :
        /\ (Generated(t, "writer") /\ sess[t].writer_tool_count >= BUDGET_MAX) =>
              /\ llm'[t] # <<>>
              /\ \A i \in 1..Len(llm'[t]) : ~llm'[t][i].tools
        /\ (Generated(t, "critic") /\ sess[t].critic_tool_count >= BUDGET_MAX) =>
              /\ llm'[t] # <<>>
              /\ \A i \in 1..Len(llm'[t]) : ~llm'[t][i].tools
        /\ (pc[t] = "tools_writer" /\ Stepped(t)
            /\ sess[t].writer_tool_count >= BUDGET_MAX) =>
              /\ NoToolRun(sess[t].writer_messages, sess'[t].writer_messages)
              /\ sess'[t].writer_tool_count = sess[t].writer_tool_count
        /\ (pc[t] = "tools_critic" /\ Stepped(t)
            /\ sess[t].critic_tool_count >= BUDGET_MAX) =>
              /\ NoToolRun(sess[t].critic_messages, sess'[t].critic_messages)
              /\ sess'[t].critic_tool_count = sess[t].critic_tool_count]_vars
\* the Critic's tool step has run at counter 6 and the Critic has generated
\* again, without tools
C14_Witness ==
    /\ pc["A"] = "tools_critic"
    /\ sess["A"].critic_tool_count = BUDGET_MAX
    /\ llm["A"] # <<>>
    /\ ~llm["A"][1].tools
    /\ \E i \in 1..Len(sess["A"].critic_messages) :
          sess["A"].critic_messages[i] = SystemMessage(CRITIC_LIMIT_RAW)

\* the review prompts a Critic history holds
ReviewPrompts(msgs) ==
    {i \in 1..Len(msgs) : msgs[i].type = "human" /\ msgs[i].content[1] = "REVIEW_HEAD"}
\* the Writer responses that handed over to the Critic (text, no tool request):
\* the ones writer_router sends to "critic"
HandOvers(msgs) == {i \in 1..Len(msgs) : msgs[i].type = "ai" /\ TextOnly(msgs[i])}

\* C15: the Critic history holds at most one review prompt per Writer-to-Critic
\* hand-over, however many Critic turns, tool turns and malformed-output
\* corrections a review has, and once the Critic has generated it holds the
\* prompt with the current draft.
C15_ReviewPromptOncePerHandOver ==
    /\ [](\A t \in Threads :
            Cardinality(ReviewPrompts(sess[t].critic_messages))
                <= Cardinality(HandOvers(sess[t].writer_messages)))
    /\ [][\A t \in Threads :
            (pc[t] = "critic" /\ Stepped(t)) =>
                \E i \in ReviewPrompts(sess'[t].critic_messages) :
                    sess'[t].critic_messages[i].content
                        = ReviewText(sess[t].current_draft)]_vars

\* C16: a Writer response without tool request (and without marker) leads to
\* reset_critic; reset_critic sets critic_tool_count to 0, changes no other
\* field of the session state and leads to critic; the Critic is entered from
\* the Writer's side through reset_critic only.
C16_ResetCriticFrame ==
    [][\A t \in Threads :
        /\ (pc[t] = "writer" /\ Stepped(t)
            /\ TextOnly(Last(sess'[t].writer_messages))) => pc'[t] = "reset_critic"
        /\ (pc[t] = "reset_critic" /\ Stepped(t)) =>
              /\ pc'[t] = "critic"
              /\ sess'[t] = [sess[t] EXCEPT !.critic_tool_count = 0]
        /\ (pc'[t] = "critic" /\ pc[t] # "critic") =>
              pc[t] \in {"reset_critic", "tools_critic"}]_vars
\* a review that failed after a tool turn, a new request and a new draft:
\* reset_critic has brought the counter from 1 to 0 and kept the rest
C16_Witness ==
    /\ pc["A"] = "critic"
    /\ sess["A"].critic_tool_count = 0
    /\ sess["A"].critic_messages # <<>>
    /\ Last(sess["A"].critic_messages).type = "tool"

\* the tool returns a tool step appended to msgs1 to give msgs2
ToolRuns(msgs1, msgs2) ==
    {i \in (Len(msgs1) + 1)..Len(msgs2) : msgs2[i].content \in AllToolReturns}

\* C17: a tool step that ran tools (n >= 1 tool returns appended) adds exactly
\* 1 to the issuing role's counter and keeps the other role's; a tool step
\* that ran none (budget reached, malformed request) keeps both counters.
C17_OneIncrementPerBatch ==
    [][\A t \in Threads :
        /\ (pc[t] = "tools_writer" /\ Stepped(t)) =>
              /\ sess'[t].critic_tool_count = sess[t].critic_tool_count
              /\ sess'[t].writer_tool_count =
                    IF ToolRuns(sess[t].writer_messages, sess'[t].writer_messages) # {}
                    THEN sess[t].writer_tool_count + 1
                    ELSE sess[t].writer_tool_count
        /\ (pc[t] = "tools_critic" /\ Stepped(t)) =>
              /\ sess'[t].writer_tool_count = sess[t].writer_tool_count
              /\ sess'[t].critic_tool_count =
                    IF ToolRuns(sess[t].critic_messages, sess'[t].critic_messages) # {}
                    THEN sess[t].critic_tool_count + 1
                    ELSE sess[t].critic_tool_count]_vars
\* the Writer's sixth tool turn, a batch of two calls, has brought the counter
\* from 5 to 6
C17_Witness ==
    LET msgs == sess["A"].writer_messages IN
    /\ pc["A"] = "writer"
    /\ sess["A"].writer_tool_count = BUDGET_MAX
    /\ Cardinality(ToolRuns(SubSeq(msgs, 1, Len(msgs) - 2), msgs)) = 2
    /\ msgs[Len(msgs) - 2].tool_calls = TOOL_TWO.tool_calls

\* msgs1 is a prefix of msgs2
IsPrefix(msgs1, msgs2) ==
    Len(msgs1) <= Len(msgs2) /\ SubSeq(msgs2, 1, Len(msgs1)) = msgs1

\* C18: every step leaves each history with its previous value as a prefix: no
\* message is removed, reordered or replaced, content-policy recovery included.
C18_HistoriesAppendOnly ==
    [][\A t \in Threads :
        /\ IsPrefix(sess[t].writer_messages, sess'[t].writer_messages)
        /\ IsPrefix(sess[t].critic_messages, sess'[t].critic_messages)]_vars

\* the Writer responses of a history that are non-empty text without tool call
Drafts(msgs) ==
    {i \in 1..Len(msgs) :
        msgs[i].type = "ai" /\ msgs[i].tool_calls = <<>> /\ msgs[i].content # <<>>}
\* the largest element of a non-empty set of numbers
Latest(S) == CHOOSE i \in S : \A j \in S : j <= i

\* C19: once the Writer history holds a non-empty text-only response,
\* current_draft is non-empty (it is the text of the latest such response) and
\* stays non-empty in every later state.
C19_DraftStaysNonEmpty ==
    /\ [](\A t \in Threads :
            LET msgs == sess[t].writer_messages IN
            Drafts(msgs) # {} =>
                /\ sess[t].current_draft # <<>>
                /\ sess[t].current_draft = msgs[Latest(Drafts(msgs))].content)
    /\ [][\A t \in Threads :
            sess[t].current_draft # <<>> => sess'[t].current_draft # <<>>]_vars
\* after a draft the Writer has answered with neither text nor tool call
C19_Witness ==
    LET msgs == sess["A"].writer_messages IN
    /\ pc["A"] = "reset_critic"
    /\ Drafts(msgs) # {}
    /\ Last(msgs) = AIMessage(EMPTY, "writer")
    /\ sess["A"].current_draft = DRAFT_ONE.content

\* this step is a step of thread t: it changes something kept for t
Touched(t) ==
    \/ sess'[t] # sess[t]
    \/ pc'[t] # pc[t]
    \/ steps'[t] # steps[t]
    \/ llm'[t] # llm[t]

\* C21: a step taken for one thread leaves every field of the session state
\* (and the run position) of every other thread unchanged, under every
\* interleaving of the threads' steps.
C21_ThreadsIsolated ==
    [][\A t \in Threads : \A u \in Threads \ {t} :
        Touched(t) =>
            /\ sess'[u] = sess[u]
            /\ pc'[u] = pc[u]
            /\ steps'[u] = steps[u]
            /\ llm'[u] = llm[u]]_vars
\* thread A has run to the iteration cap while thread B is in its first review
C21_Witness ==
    /\ pc["A"] = "END"
    /\ sess["A"].loop_count = MAX_ITERATIONS
    /\ pc["B"] = "tools_critic"
    /\ sess["B"].loop_count = 0
    /\ sess["B"].writer_tool_count = 1

\* C22: while two streaming requests for one thread id are in flight, no node
\* of one request runs between nodes of the other: no run takes a turn, gives
\* way to another run and takes a turn again.
C22_StepsNeverInterleave ==
    \A t \in Threads :
        \A i, j \in 1..Len(stream[t].turns) :
            stream[t].turns[i] = stream[t].turns[j] => i = j

\* the fields f of thread t's state are the same before and after the step
Keeps(t, f) == \A k \in f : sess'[t][k] = sess[t][k]
Counters == {"writer_tool_count", "critic_tool_count", "loop_count"}

\* C23: a step of node "writer" leaves the two tool counters, loop_count,
\* score, critique_advice and critic_messages unchanged; a step of node
\* "critic" leaves the two tool counters, loop_count, current_draft and
\* writer_messages unchanged; a counter changes only in a step of a tool node,
\* of reset_critic or of increment_loop.
C23_GenerationFrame ==
    [][\A t \in Threads :
        /\ (Stepped(t) /\ pc[t] = "writer") =>
               Keeps(t, Counters \cup {"score", "critique_advice", "critic_messages"})
        /\ (Stepped(t) /\ pc[t] = "critic") =>
               Keeps(t, Counters \cup {"current_draft", "writer_messages"})
        /\ ~Keeps(t, Counters) =>
               /\ Stepped(t)
               /\ pc[t] \in {"tools_writer", "tools_critic", "reset_critic",
                              "increment_loop"}]_vars
\* the Writer has answered in iteration 1 after a tool turn, with the verdict
\* of the review before still in the state
C23_Witness ==
    /\ pc["A"] = "reset_critic"
    /\ sess["A"].loop_count = 1
    /\ sess["A"].score = 5
    /\ sess["A"].critique_advice # <<>>
    /\ sess["A"].writer_tool_count = 1
    /\ Last(sess["A"].writer_messages).name = "writer"

\* the text-only verdicts the Critic has issued on thread t
Verdicts(t) ==
    Cardinality({i \in 1..Len(sess[t].critic_messages) :
                    /\ sess[t].critic_messages[i].type = "ai"
                    /\ TextOnly(sess[t].critic_messages[i])})

\* C24: within one run (the thread's history holds the seeds of one request)
\* the Critic issues at most 2 text-only verdicts (the attempts of loop 0 and
\* loop 1), and while the Writer is at work loop_count is the number of
\* Writer-to-Critic cycles completed so far.
C24_TwoAttemptsPerRun ==
    \A t \in Threads :
        Seeds(sess[t]) = 1 =>
            /\ Verdicts(t) <= 2
            /\ pc[t] \in {"writer", "tools_writer"} =>
                   sess[t].loop_count = Verdicts(t)

\* C25: a run without malformed responses needs at most RECURSION_LIMIT node
\* executions: it never has a node still to run once it has executed that many.
C25_LongestRunWithinLimit ==
    \A t \in Threads :
        (NoMalformed(t) /\ pc[t] \in Nodes) => steps[t] < RECURSION_LIMIT

\* a feedback message / the Writer's budget-limit notice
IsFeedback(m) ==
    m.type = "human" /\ m.content # <<>> /\ m.content[1] = "Critic Feedback (Score: "
IsLimitNotice(m) == m.type = "system" /\ m.content = WRITER_LIMIT_NOTICE

\* C26: a step of node "writer" adds exactly one message to writer_messages,
\* the provider's response; no stored message is a feedback message or the
\* budget-limit notice; and when the step starts with loop_count > 0 and an
\* advice that no stored user message contains, the messages of its provider
\* call carry, right after the history, the feedback built from the state's
\* score and advice.
C26_WriterStoresResponseOnly ==
    [][\A t \in Threads :
        (pc[t] = "writer" /\ Stepped(t)) =>
            LET old == sess[t].writer_messages
                new == sess'[t].writer_messages
                sent == llm'[t][1].messages
            IN  /\ Len(new) = Len(old) + 1
                /\ Last(new).type = "ai"
                /\ Last(new).name = "writer"
                /\ \A i \in 1..Len(new) : ~IsFeedback(new[i]) /\ ~IsLimitNotice(new[i])
                /\ ( /\ sess[t].loop_count > 0
                     /\ sess[t].critique_advice # <<>>
                     /\ \A i \in 1..Len(old) :
                            old[i].type = "human" =>
                                ~Contains(old[i].content, sess[t].critique_advice) )
                   => /\ Len(sent) > Len(old)
                      /\ sent[Len(old) + 1] =
                             HumanMessage(FeedbackText(sess[t].score,
                                                       sess[t].critique_advice))]_vars
\* the Writer has been called on a tool sub-turn of iteration 1: the call ends
\* with the feedback message, placed after the tool result, and the history
\* holds the response after that tool result
C26_Witness ==
    /\ pc["A"] \in {"reset_critic", "tools_writer"}
    /\ sess["A"].loop_count = 1
    /\ llm["A"] # <<>>
    /\ Len(llm["A"][1].messages) >= 2
    /\ IsFeedback(Last(llm["A"][1].messages))
    /\ llm["A"][1].messages[Len(llm["A"][1].messages) - 1].type = "tool"
    /\ Len(sess["A"].writer_messages) >= 2
    /\ sess["A"].writer_messages[Len(sess["A"].writer_messages) - 1].type = "tool"

\* C27: a request on a thread whose run has ended appends the two seed
\* messages to writer_messages and keeps loop_count, score, critique_advice and
\* both tool counters; in a run started that way with loop_count = 2 no step
\* changes loop_count and the Critic's text-only verdict ends the run whatever
\* its score.
C27_ResumesFromPersistedState ==
    [][\A t \in Threads :
        /\ (pc[t] = "END" /\ pc'[t] = "writer") =>
               /\ \E topic \in Topics :
                      sess'[t].writer_messages =
                          sess[t].writer_messages
                          \o <<SystemMessage(SYSTEM_PROMPT), HumanMessage(topic)>>
               /\ Keeps(t, Counters \cup {"score", "critique_advice"})
        /\ ( /\ Seeds(sess[t]) >= 2
             /\ sess[t].loop_count = MAX_ITERATIONS
             /\ Stepped(t) ) =>
               /\ sess'[t].loop_count = MAX_ITERATIONS
               /\ (pc[t] = "critic" /\ TextOnly(Last(sess'[t].critic_messages)))
                      => pc'[t] = "END"]_vars
\* the second run of the thread, entered with loop_count = 2 and one tool turn
\* of the Writer's budget used, has ended at its only verdict, a score of 5
C27_Witness ==
    /\ pc["A"] = "END"
    /\ Seeds(sess["A"]) = 2
    /\ Verdicts("A") = 4
    /\ sess["A"].loop_count = MAX_ITERATIONS
    /\ sess["A"].score = 5
    /\ sess["A"].writer_tool_count = 1

====
